---- MODULE Spec2Model ----
(***************************************************************************)
(* A model of log_analyzer/analyzer.py: _parse_log_line and analyze_logs.  *)
(*                                                                         *)
(* A raw line is a record                                                  *)
(*   [lead, hash, n, ts, svc, et, lat]                                     *)
(* standing for the text                                                   *)
(*   (" " if lead) ("#" if hash) ts | svc | et | lat.text lat.unit | ...   *)
(* cut after its first n tokens; n = 0 is a line without any token (the    *)
(* empty line, or a whitespace-only line when lead holds).  Latencies are  *)
(* exact decimals counted in tenths of a millisecond, averages in          *)
(* hundredths; datetimes are seconds.  A Python value that may be None is  *)
(* a sequence of length 0 (None) or 1.                                     *)
(***************************************************************************)
EXTENDS Integers, Sequences, FiniteSets, TLC

VARIABLES log_data, opts, lines, pc, i, pending, results, parsed, j,
          service_stats, summary

vars == <<log_data, opts, lines, pc, i, pending, results, parsed, j,
          service_stats, summary>>

None == <<>>

Some(x) == <<x>>

NoneStr == "<None>"

NoneLat == [text |-> NoneStr, unit |-> ""]

\* float('nan'): below every latency of the model, of which none is negative
NaN == 0 - 1

(* ---------------------------- bounds ----------------------------------- *)

MaxLines == 3

MaxFilterLines == 1

MaxEvents == 4

MaxRegexLines == 2

MaxRanked == 4

MaxHistLines == 3

\* the events of a service in the short anomaly inputs
MaxAnomalyEvents == 6

\* the lines of the long anomaly inputs
MaxOutlierLines == 11

(* ------------------------- string primitives --------------------------- *)

\* str.upper() on the event types of the model
Upper(s) ==
  CASE s = "error" -> "ERROR"
    [] s = "Error" -> "ERROR"
    [] s = "info" -> "INFO"
    [] OTHER -> s

\* str.lower() on a latency token: only the unit has letters
Lower(lat) == [lat EXCEPT !.unit = IF @ = "MS" THEN "ms" ELSE @]

\* .replace('ms', '') on a lowered latency token
ReplaceMs(lat) == [lat EXCEPT !.unit = IF @ = "ms" THEN "" ELSE @]

\* float(): the value in tenths, or None where float() raises ValueError
Float(lat) ==
  IF lat.unit # "" THEN None
  ELSE CASE lat.text = "1.0" -> Some(10)
         [] lat.text = "2.0" -> Some(20)
         [] lat.text = "3.0" -> Some(30)
         [] lat.text = "5" -> Some(50)
         [] lat.text = "9" -> Some(90)
         [] lat.text = "9.0" -> Some(90)
         [] lat.text = "10" -> Some(100)
         [] lat.text = "12.5" -> Some(125)
         [] lat.text = "17.5" -> Some(175)
         [] lat.text = "50" -> Some(500)
         [] lat.text = "60" -> Some(600)
         [] lat.text = "100" -> Some(1000)
         [] lat.text = "150" -> Some(1500)
         [] lat.text = "nan" -> Some(NaN)
         [] OTHER -> None

\* datetime.fromisoformat(ts): seconds, or None where it raises
FromIsoFormat(ts) ==
  CASE ts = "1970-01-01T00:00:01" -> Some(1)
    [] ts = "1970-01-01T00:00:02" -> Some(2)
    [] ts = "1970-01-01T00:00:03" -> Some(3)
    [] OTHER -> None

\* datetime.fromtimestamp(float(ts)): seconds, or None where it raises
FromTimestamp(ts) ==
  IF \E k \in 0..9 : ts = ToString(k)
  THEN Some(CHOOSE k \in 0..9 : ts = ToString(k))
  ELSE None

\* parse_time: ISO format first, then epoch, else None
parse_time(ts) ==
  IF FromIsoFormat(ts) # None THEN FromIsoFormat(ts) ELSE FromTimestamp(ts)

(* --------------------------- splitting the text ------------------------ *)

EmptyLine ==
  [lead |-> FALSE, hash |-> FALSE, n |-> 0, ts |-> "", svc |-> "", et |-> "",
   lat |-> [text |-> "", unit |-> ""]]

\* the line consists of whitespace only (or of nothing)
IsSpace(line) == line.n = 0

RECURSIVE LStrip(_)
\* the lines of text.lstrip(): whitespace, newlines included, leaves the front
LStrip(ls) ==
  IF ls = <<>> THEN <<>>
  ELSE IF IsSpace(Head(ls)) THEN LStrip(Tail(ls))
  ELSE <<[Head(ls) EXCEPT !.lead = FALSE]>> \o Tail(ls)

RECURSIVE RStrip(_)
\* the lines of text.rstrip(): trailing whitespace-only lines leave the end
RStrip(ls) ==
  IF ls = <<>> THEN <<>>
  ELSE IF IsSpace(ls[Len(ls)]) THEN RStrip(SubSeq(ls, 1, Len(ls) - 1))
  ELSE ls

\* log_data.strip().split('\n'): never an empty list
StripSplit(raw) ==
  LET s == RStrip(LStrip(raw)) IN IF s = <<>> THEN <<EmptyLine>> ELSE s

(* ------------------------------ _parse_log_line ------------------------ *)

Groups == {"timestamp", "service", "event_type", "latency"}

\* the first token of the line as split() and strip() leave it
FirstToken(line) == IF line.hash THEN "#" \o line.ts ELSE line.ts

\* not line
IsEmpty(line) == line.n = 0 /\ ~line.lead

\* line.startswith('#')
StartsWithHash(line) == line.hash /\ ~line.lead

\* len(line.split(delimiter)): a line without a delimiter is one part
NumParts(line) == IF line.n = 0 THEN 1 ELSE line.n

\* regex.match(line): the patterns of the model are four '|'-separated
\* fields, the first starting with a non-space character, unanchored at
\* the end
RegexMatch(line) == ~line.lead /\ line.n >= 4

\* match.groupdict().get(name): None for a group the pattern does not have
GroupGet(G, name, value, none) == IF name \in G THEN value ELSE none

\* the four fields of a line, or None where the line is rejected for its shape
Fields(line, o) ==
  IF o.regex # None
  THEN IF ~RegexMatch(line) THEN None
       ELSE LET G == o.regex[1] IN
            Some([timestamp_str |-> GroupGet(G, "timestamp", FirstToken(line), NoneStr),
                  service_name |-> GroupGet(G, "service", line.svc, NoneStr),
                  event_type |-> GroupGet(G, "event_type", line.et, NoneStr),
                  latency_str |-> GroupGet(G, "latency", line.lat, NoneLat)])
  ELSE IF NumParts(line) # 4 THEN None
       ELSE Some([timestamp_str |-> FirstToken(line),
                  service_name |-> line.svc,
                  event_type |-> line.et,
                  latency_str |-> line.lat])

\* start_dt = parse_time(start_time) if start_time else None
BoundDt(t) == IF t # None /\ t[1] # "" THEN parse_time(t[1]) ELSE None

\* a window that shuts out its own end
TimeRejectsAtEnd(f, o) ==
  LET start_dt == BoundDt(o.start_time)
      end_dt == BoundDt(o.end_time)
      ts_dt == parse_time(f.timestamp_str)
  IN  (start_dt # None \/ end_dt # None)
      /\ (\/ ts_dt = None
          \/ start_dt # None /\ ts_dt[1] < start_dt[1]
          \/ end_dt # None /\ ts_dt[1] >= end_dt[1])

\* lines 35-42: the time window; TRUE when the line is rejected
TimeRejects(f, o) ==
  LET start_dt == BoundDt(o.start_time)
      end_dt == BoundDt(o.end_time)
      ts_dt == parse_time(f.timestamp_str)
  IN  (start_dt # None \/ end_dt # None)
      /\ (\/ ts_dt = None
          \/ start_dt # None /\ ts_dt[1] < start_dt[1]
          \/ end_dt # None /\ ts_dt[1] > end_dt[1])

\* lines 44-45: the service allowlist; an empty list is falsy
ServiceRejects(f, o) ==
  /\ o.service_names # None
  /\ o.service_names[1] # {}
  /\ f.service_name \notin o.service_names[1]

\* lines 47-48: the event type filter; None.upper() raises, which rejects
EventTypeRejects(f, o) ==
  /\ o.event_type_filter # None
  /\ o.event_type_filter[1] # ""
  /\ (f.event_type = NoneStr
      \/ Upper(f.event_type) # Upper(o.event_type_filter[1]))

\* line 49: float(latency_str.lower().replace('ms', '')); None where it raises
Latency(f) ==
  IF f.latency_str = NoneLat THEN None
  ELSE Float(ReplaceMs(Lower(f.latency_str)))

\* _parse_log_line: None, or the parsed entry
ParseLogLine(line, o) ==
  IF IsEmpty(line) \/ StartsWithHash(line) THEN None
  ELSE LET fs == Fields(line, o) IN
       IF fs = None THEN None
       ELSE LET f == fs[1] IN
            IF TimeRejects(f, o) THEN None
            ELSE IF ServiceRejects(f, o) THEN None
            ELSE IF EventTypeRejects(f, o) THEN None
            ELSE IF Latency(f) = None THEN None
            ELSE Some([service_name |-> f.service_name,
                       timestamp |-> f.timestamp_str,
                       event_type |-> f.event_type,
                       latency |-> Latency(f)[1]])

(* ------------------------------ the fold ------------------------------- *)

\* the defaultdict's factory
NewStats ==
  [total_count |-> 0, total_latency |-> 0, error_count |-> 0, latencies |-> <<>>]

\* event_type.upper() == 'ERROR'
IsError(event_type) == Upper(event_type) = "ERROR"

\* a + b on floats: nan when either is
Add(a, b) == IF a = NaN \/ b = NaN THEN NaN ELSE a + b

\* lines 114-116: count, sum and retain the entry
Counted(acc, entry) ==
  [acc EXCEPT !.total_count = @ + 1,
              !.total_latency = Add(@, entry.latency),
              !.latencies = Append(@, [timestamp |-> entry.timestamp,
                                       latency |-> entry.latency,
                                       event_type |-> entry.event_type])]

\* lines 118-119
ErrorCounted(acc, entry) ==
  IF IsError(entry.event_type) THEN [acc EXCEPT !.error_count = @ + 1] ELSE acc

\* service_stats[name] = acc, creating the key when it is new
WithStats(stats, name, acc) ==
  [k \in DOMAIN stats \cup {name} |-> IF k = name THEN acc ELSE stats[k]]

\* a lookup that forgets the accumulator of the service
StatsOfFresh(stats, name) == NewStats

\* service_stats[name], created by the defaultdict when missing
StatsOf(stats, name) == IF name \in DOMAIN stats THEN stats[name] ELSE NewStats

\* event_type.upper() raises AttributeError on None
UpperRaises(entry) == entry.event_type = NoneStr

\* one iteration of the loop of lines 108-119 that does not raise
Accumulated(stats, entry) ==
  WithStats(stats, entry.service_name,
            ErrorCounted(Counted(StatsOf(stats, entry.service_name), entry), entry))

\* the iteration that raises at line 118, after lines 114-116
AccumulatedBeforeRaise(stats, entry) ==
  WithStats(stats, entry.service_name,
            Counted(StatsOf(stats, entry.service_name), entry))

(* ------------------------------ finalisation --------------------------- *)

\* num / den cut off instead of rounded
RoundDown(num, den) == num \div den

\* num / den rounded to an integer, ties to even
RoundHalfEven(num, den) ==
  LET q == num \div den
      r == num % den
  IN  IF 2 * r > den THEN q + 1
      ELSE IF 2 * r < den THEN q
      ELSE IF q % 2 = 0 THEN q ELSE q + 1

\* f"{x:.2f}" of x = h / 100
Fixed2(h) ==
  ToString(h \div 100) \o "." \o (IF h % 100 < 10 THEN "0" ELSE "")
    \o ToString(h % 100)

\* the average cut off after 2 decimals
AverageLatencyCut(acc) ==
  IF acc.total_count > 0 THEN (acc.total_latency * 10) \div acc.total_count ELSE 0

\* round(avg_latency, 2), in hundredths; nan stays nan
AverageLatency(acc) ==
  IF acc.total_count > 0
  THEN IF acc.total_latency = NaN THEN NaN
       ELSE RoundHalfEven(acc.total_latency * 10, acc.total_count)
  ELSE 0

\* f"{error_rate_value:.2f}%"
ErrorRate(acc) ==
  IF acc.total_count > 0
  THEN Fixed2(RoundHalfEven(acc.error_count * 10000, acc.total_count)) \o "%"
  ELSE Fixed2(0) \o "%"

RECURSIVE InsertBeforeTies(_, _)
\* e placed in front of the elements of its own latency
InsertBeforeTies(sorted, e) ==
  IF sorted = <<>> THEN <<e>>
  ELSE IF Head(sorted).latency > e.latency
       THEN <<Head(sorted)>> \o InsertBeforeTies(Tail(sorted), e)
       ELSE <<e>> \o sorted

RECURSIVE InsertDesc(_, _)
\* e placed behind every element whose latency is not smaller
InsertDesc(sorted, e) ==
  IF sorted = <<>> THEN <<e>>
  ELSE IF Head(sorted).latency >= e.latency
       THEN <<Head(sorted)>> \o InsertDesc(Tail(sorted), e)
       ELSE <<e>> \o sorted

RECURSIVE SortedDesc(_)
\* sorted(latencies, key=latency, reverse=True): stable
SortedDesc(s) ==
  IF s = <<>> THEN <<>>
  ELSE InsertDesc(SortedDesc(SubSeq(s, 1, Len(s) - 1)), s[Len(s)])

\* sorted_latencies[:top_slowest]
Take(s, k) == SubSeq(s, 1, IF k < Len(s) THEN k ELSE Len(s))

\* lines 134-137
TopSlowest(acc, o) ==
  IF o.top_slowest # None /\ o.top_slowest[1] # 0 /\ acc.latencies # <<>>
  THEN Some(Take(SortedDesc(acc.latencies), o.top_slowest[1]))
  ELSE None

RECURSIVE SumLatency(_)
SumLatency(s) == IF s = <<>> THEN 0 ELSE Head(s).latency + SumLatency(Tail(s))

RECURSIVE SumSquares(_, _, _)
\* the sum of (n * x - total)^2 over the latencies x
SumSquares(s, n, total) ==
  IF s = <<>> THEN 0
  ELSE (n * Head(s).latency - total) * (n * Head(s).latency - total)
       + SumSquares(Tail(s), n, total)

\* the test without abs(): only the latencies above the mean
IsAnomalyAbove(e, s) ==
  LET n == Len(s)
      total == SumLatency(s)
      ss == SumSquares(s, n, total)
      d == n * e.latency - total
  IN  ss > 0 /\ d > 0 /\ d * d * (n - 1) > 4 * ss

\* stdev > 0 and abs((latency - mean) / stdev) > 2, with stdev the sample
\* deviation: (n x - total)^2 (n - 1) > 4 * sum of squares
IsAnomaly(e, s) ==
  LET n == Len(s)
      total == SumLatency(s)
      ss == SumSquares(s, n, total)
      d == n * e.latency - total
  IN  ss > 0 /\ d * d * (n - 1) > 4 * ss

RECURSIVE SelectAnomalies(_, _)
SelectAnomalies(rest, s) ==
  IF rest = <<>> THEN <<>>
  ELSE (IF IsAnomaly(Head(rest), s) THEN <<Head(rest)>> ELSE <<>>)
       \o SelectAnomalies(Tail(rest), s)

\* some latency of the list is nan
HasNaN(s) == \E k \in 1..Len(s) : s[k].latency = NaN

\* line 143: statistics.stdev on a list that holds nan raises AttributeError
\* in some releases of the library and returns nan in the others
StdevMayRaise(acc, o) ==
  o.detect_anomalies /\ Len(acc.latencies) > 2 /\ HasNaN(acc.latencies)

\* lines 140-147 and 172: the key is set only for a non-empty list; with a
\* nan among the latencies mean_latency is nan and line 146 is False of each
Anomalies(acc, o) ==
  IF o.detect_anomalies /\ Len(acc.latencies) > 2 /\ ~HasNaN(acc.latencies)
     /\ SelectAnomalies(acc.latencies, acc.latencies) # <<>>
  THEN Some(SelectAnomalies(acc.latencies, acc.latencies))
  ELSE None

\* f"<= {b}"
BucketLabel(b) == "<= " \o ToString(b)

\* "> {latency_histogram[-1]}": a plain string, not an f-string
OverflowLabel(edges) == "> {latency_histogram[-1]}"

\* bucket_labels of line 153
BucketLabels(edges) ==
  [k \in 1..Len(edges) |-> BucketLabel(edges[k])] \o <<OverflowLabel(edges)>>

\* latency <= edge on floats, the edge in milliseconds: False for nan
AtMost(latency, edge) == latency # NaN /\ latency <= edge * 10

\* the index of the first edge the latency is <= to; Len(edges) + 1 is inf,
\* and 0 says that the loop of line 157 ends without a break, as nan <= inf
\* is False
BucketOf(latency, edges) ==
  IF \E k \in 1..Len(edges) : AtMost(latency, edges[k])
  THEN CHOOSE k \in 1..Len(edges) :
         /\ AtMost(latency, edges[k])
         /\ \A m \in 1..(k - 1) : ~AtMost(latency, edges[m])
  ELSE IF latency # NaN THEN Len(edges) + 1 ELSE 0

\* counts of lines 154-160
BucketCounts(s, edges) ==
  [k \in 1..(Len(edges) + 1) |->
     Cardinality({x \in 1..Len(s) : BucketOf(s[x].latency, edges) = k})]

\* d[key] = value on a dict kept as a sequence of pairs in insertion order
DictPut(d, key, value) ==
  IF \E x \in 1..Len(d) : d[x][1] = key
  THEN [x \in 1..Len(d) |-> IF d[x][1] = key THEN <<key, value>> ELSE d[x]]
  ELSE Append(d, <<key, value>>)

RECURSIVE DictZip(_, _)
\* dict(zip(keys, values))
DictZip(keys, values) ==
  IF keys = <<>> \/ values = <<>> THEN <<>>
  ELSE DictPut(DictZip(SubSeq(keys, 1, Len(keys) - 1), SubSeq(values, 1, Len(keys) - 1)),
               keys[Len(keys)], values[Len(keys)])

\* lines 150-161
LatencyHist(acc, o) ==
  IF o.latency_histogram # None /\ o.latency_histogram[1] # <<>>
     /\ acc.latencies # <<>>
  THEN Some(DictZip(BucketLabels(o.latency_histogram[1]),
                    BucketCounts(acc.latencies, o.latency_histogram[1])))
  ELSE None

\* lines 163-173: the summary of one service; None is a key left out
Summarize(acc, o) ==
  [total_events |-> acc.total_count,
   average_latency_ms |-> AverageLatency(acc),
   error_rate |-> ErrorRate(acc),
   top_slowest_events |-> TopSlowest(acc, o),
   latency_histogram |-> LatencyHist(acc, o),
   anomalies |-> Anomalies(acc, o)]

\* lines 122-175
Summary(stats, o) == [s \in DOMAIN stats |-> Summarize(stats[s], o)]

(* ------------------------------ the inputs ----------------------------- *)

SeqsUpTo(S, n) == UNION {[1..m -> S] : m \in 0..n}

Line(lead, hash, n, ts, svc, et, text, unit) ==
  [lead |-> lead, hash |-> hash, n |-> n, ts |-> ts, svc |-> svc, et |-> et,
   lat |-> [text |-> text, unit |-> unit]]

NoOptions ==
  [regex |-> None, start_time |-> None, end_time |-> None,
   service_names |-> None, event_type_filter |-> None, top_slowest |-> None,
   latency_histogram |-> None, detect_anomalies |-> FALSE, parallel |-> FALSE]

\* lines of every shape: blank, comment, indented, short, long, bad latency
ShapeLines ==
  { EmptyLine,
    Line(TRUE, FALSE, 0, "", "", "", "", ""),
    Line(FALSE, TRUE, 4, "1", "db", "INFO", "5", ""),
    Line(TRUE, TRUE, 4, "1", "db", "INFO", "5", ""),
    Line(FALSE, FALSE, 4, "1", "api", "INFO", "12.5", "ms"),
    Line(TRUE, FALSE, 4, "2", "api", "ERROR", "17.5", "MS"),
    Line(FALSE, FALSE, 3, "2", "db", "ERROR", "", ""),
    Line(FALSE, FALSE, 5, "3", "db", "INFO", "5", ""),
    Line(FALSE, FALSE, 4, "3", "db", "INFO", "abc", "") }

ShapeInputs ==
  { [raw |-> r, o |-> [NoOptions EXCEPT !.parallel = p]] :
      r \in SeqsUpTo(ShapeLines, MaxLines), p \in BOOLEAN }

\* well-formed lines under every combination of the filters
FilterLines ==
  { Line(FALSE, FALSE, 4, ts, svc, et, "5", "ms") :
      ts \in {"1970-01-01T00:00:01", "2", "1970-01-01T00:00:03", "noon"},
      svc \in {"api", "API"},
      et \in {"ERROR", "Error", "INFO"} }

FilterOptions ==
  { [NoOptions EXCEPT !.start_time = st, !.end_time = en,
                      !.service_names = sn, !.event_type_filter = ef] :
      st \in {None, Some("2"), Some("soon")},
      en \in {None, Some("1970-01-01T00:00:02")},
      sn \in {None, Some({"api"}), Some({})},
      ef \in {None, Some("error")} }

FilterInputs ==
  { [raw |-> r, o |-> o] :
      r \in SeqsUpTo(FilterLines, MaxFilterLines), o \in FilterOptions }

\* events of two services with errors in either case and fractional latencies
StatLines ==
  { Line(FALSE, FALSE, 4, "1", "api", "ERROR", "2.0", "ms"),
    Line(FALSE, FALSE, 4, "2", "api", "error", "3.0", "ms"),
    Line(FALSE, FALSE, 4, "3", "api", "SUCCESS", "5", ""),
    Line(FALSE, FALSE, 4, "4", "api", "INFO", "12.5", "ms"),
    Line(FALSE, FALSE, 4, "5", "api", "info", "17.5", "MS"),
    Line(FALSE, FALSE, 4, "6", "db", "ERROR", "1.0", "") }

StatInputs ==
  { [raw |-> r, o |-> NoOptions] : r \in SeqsUpTo(StatLines, MaxEvents) }

\* events of one service, told apart by their timestamp, the line number
RankedRaws ==
  UNION { { [k \in 1..m |-> Line(FALSE, FALSE, 4, ToString(k), "api", "INFO", f[k], "")] :
              f \in [1..m -> {"10", "60", "150"}] } : m \in 0..MaxRanked }

RankedOptions ==
  { [NoOptions EXCEPT !.top_slowest = t, !.latency_histogram = h] :
      t \in {None, Some(1), Some(2)}, h \in {None, Some(<<50, 100>>)} }
  \cup { [NoOptions EXCEPT !.top_slowest = Some(2), !.detect_anomalies = TRUE,
                           !.parallel = TRUE] }

RankedInputs == { [raw |-> r, o |-> o] : r \in RankedRaws, o \in RankedOptions }

\* latencies on, between and beyond the edges of a histogram, and one that
\* float() reads as nan
HistLines ==
  { Line(FALSE, FALSE, 4, "1", "api", "INFO", t, "") : t \in {"50", "100", "150", "nan"} }
  \cup { Line(FALSE, FALSE, 4, "2", "db", "INFO", "60", "ms") }

HistOptions ==
  { [NoOptions EXCEPT !.latency_histogram = Some(h)] : h \in {<<50, 100>>, <<100>>} }
  \cup { [NoOptions EXCEPT !.latency_histogram = Some(<<100>>), !.detect_anomalies = TRUE] }

HistInputs ==
  { [raw |-> r, o |-> o] : r \in SeqsUpTo(HistLines, MaxHistLines), o \in HistOptions }

\* every short list of low and high latencies of one service, with the
\* detection on and off
AnomalyRaws ==
  UNION { { [k \in 1..m |-> Line(FALSE, FALSE, 4, ToString(k), "api", "INFO", f[k], "")] :
              f \in [1..m -> {"10", "150"}] } : m \in 0..MaxAnomalyEvents }

AnomalyInputs ==
  { [raw |-> r, o |-> [NoOptions EXCEPT !.detect_anomalies = d]] :
      r \in AnomalyRaws, d \in BOOLEAN }

\* a line of latency 60 of either service
Outlier(k, svc) == Line(FALSE, FALSE, 4, ToString(k), svc, "INFO", "60", "")

\* long runs of latency 10 with up to two lines replaced by outliers
OutlierRaws ==
  UNION { { [k \in 1..m |-> IF k \in DOMAIN f THEN Outlier(k, f[k])
                            ELSE Line(FALSE, FALSE, 4, ToString(k), "api", "INFO", "10", "")] :
              f \in UNION { [P -> {"api", "db"}] :
                              P \in { Q \in SUBSET (1..m) : Cardinality(Q) <= 2 } } } :
          m \in (MaxOutlierLines - 1)..MaxOutlierLines }

OutlierInputs ==
  { [raw |-> r, o |-> [NoOptions EXCEPT !.detect_anomalies = TRUE]] : r \in OutlierRaws }

\* regex mode: patterns with all four named groups or with one missing
RegexLines ==
  { Line(FALSE, FALSE, 4, "2", "api", "INFO", "5", "ms"),
    Line(FALSE, FALSE, 4, "3", "db", "ERROR", "9", ""),
    Line(TRUE, FALSE, 4, "2", "api", "INFO", "5", ""),
    Line(FALSE, FALSE, 3, "2", "api", "INFO", "", ""),
    Line(FALSE, FALSE, 5, "2", "api", "info", "9.0", "MS"),
    Line(FALSE, FALSE, 4, "2", "api", "INFO", "abc", "") }

RegexPatterns == {Groups} \cup {Groups \ {g} : g \in Groups}

RegexOptions ==
  { [NoOptions EXCEPT !.regex = Some(G), !.start_time = st,
                      !.service_names = sn, !.event_type_filter = ef] :
      G \in RegexPatterns,
      st \in {None, Some("2")},
      sn \in {None, Some({"api"})},
      ef \in {None, Some("info")} }
  \cup { [NoOptions EXCEPT !.regex = Some(G), !.parallel = TRUE] : G \in RegexPatterns }

RegexInputs ==
  { [raw |-> r, o |-> o] :
      r \in SeqsUpTo(RegexLines, MaxRegexLines), o \in RegexOptions }

Inputs ==
  ShapeInputs \cup FilterInputs \cup StatInputs \cup RankedInputs \cup RegexInputs
    \cup HistInputs \cup AnomalyInputs \cup OutlierInputs

(* ------------------------------ the program ---------------------------- *)

\* analyze_logs up to line 96: the text is split, nothing is parsed yet
Init ==
  \E in \in Inputs :
    /\ log_data = in.raw
    /\ opts = in.o
    /\ lines = StripSplit(in.raw)
    /\ pc = "parse"
    /\ i = 1
    /\ pending = IF in.o.parallel THEN 1..Len(StripSplit(in.raw)) ELSE {}
    /\ results = [k \in 1..Len(StripSplit(in.raw)) |-> None]
    /\ parsed = <<>>
    /\ j = 1
    /\ service_stats = <<>>
    /\ summary = <<>>

\* lines 103-106: one iteration of the sequential loop
ParseSequential ==
  /\ pc = "parse"
  /\ ~opts.parallel
  /\ i <= Len(lines)
  /\ parsed' = parsed \o ParseLogLine(lines[i], opts)
  /\ i' = i + 1
  /\ pc' = IF i = Len(lines) THEN "fold" ELSE "parse"
  /\ UNCHANGED <<log_data, opts, lines, pending, results, j, service_stats, summary>>

\* the results kept in the order in which the workers finish
PlacedOnCompletion(res, k, r, c) == [res EXCEPT ![c + 1] = r]

\* pool.map keeps the result of the k-th argument at position k, whatever
\* the number c of results that came in before it
Placed(res, k, r, c) == [res EXCEPT ![k] = r]

\* line 100: a worker of the pool finishes line k
WorkerParse(k) ==
  /\ pc = "parse"
  /\ opts.parallel
  /\ k \in pending
  /\ results' = Placed(results, k, ParseLogLine(lines[k], opts),
                       Len(lines) - Cardinality(pending))
  /\ pending' = pending \ {k}
  /\ UNCHANGED <<log_data, opts, lines, pc, i, parsed, j, service_stats, summary>>

RECURSIVE Flatten(_)
\* [p for p in parsed if p]
Flatten(res) == IF res = <<>> THEN <<>> ELSE Head(res) \o Flatten(Tail(res))

\* lines 100-101: pool.map returns once every line is done
PoolCollect ==
  /\ pc = "parse"
  /\ opts.parallel
  /\ pending = {}
  /\ parsed' = Flatten(results)
  /\ pc' = "fold"
  /\ UNCHANGED <<log_data, opts, lines, i, pending, results, j, service_stats, summary>>

\* lines 108-119: one iteration of the fold
Accumulate ==
  /\ pc = "fold"
  /\ j <= Len(parsed)
  /\ ~UpperRaises(parsed[j])
  /\ service_stats' = Accumulated(service_stats, parsed[j])
  /\ j' = j + 1
  /\ UNCHANGED <<log_data, opts, lines, pc, i, pending, results, parsed, summary>>

\* line 118 raises AttributeError out of analyze_logs
AccumulateRaise ==
  /\ pc = "fold"
  /\ j <= Len(parsed)
  /\ UpperRaises(parsed[j])
  /\ service_stats' = AccumulatedBeforeRaise(service_stats, parsed[j])
  /\ pc' = "raised"
  /\ UNCHANGED <<log_data, opts, lines, i, pending, results, parsed, j, summary>>

\* lines 121-175: the summaries, and the return
Finalize ==
  /\ pc = "fold"
  /\ j > Len(parsed)
  /\ summary' = Summary(service_stats, opts)
  /\ pc' = "done"
  /\ UNCHANGED <<log_data, opts, lines, i, pending, results, parsed, j, service_stats>>

\* line 143 raises AttributeError out of analyze_logs
FinalizeRaise ==
  /\ pc = "fold"
  /\ j > Len(parsed)
  /\ \E s \in DOMAIN service_stats : StdevMayRaise(service_stats[s], opts)
  /\ pc' = "raised"
  /\ UNCHANGED <<log_data, opts, lines, i, pending, results, parsed, j, service_stats,
                 summary>>

Next ==
  \/ ParseSequential
  \/ \E k \in 1..Len(lines) : WorkerParse(k)
  \/ PoolCollect
  \/ Accumulate
  \/ AccumulateRaise
  \/ Finalize
  \/ FinalizeRaise

Spec == Init /\ [][Next]_vars

TypeOK ==
  /\ pc \in {"parse", "fold", "done", "raised"}
  /\ i \in 1..(Len(lines) + 1)
  /\ j \in 1..(Len(parsed) + 1)
  /\ pending \subseteq 1..Len(lines)
  /\ Len(parsed) <= Len(lines)

(* ---------------------- analyze_logs as a function --------------------- *)

RECURSIVE ParsedOf(_, _)
\* the list parsed of lines 96-106, sequential path
ParsedOf(ls, o) ==
  IF ls = <<>> THEN <<>>
  ELSE ParseLogLine(Head(ls), o) \o ParsedOf(Tail(ls), o)

RECURSIVE FoldFrom(_, _)
\* the loop of lines 108-119 from the accumulators stats on
FoldFrom(stats, es) ==
  IF es = <<>> THEN [raised |-> FALSE, stats |-> stats]
  ELSE IF UpperRaises(Head(es))
       THEN [raised |-> TRUE, stats |-> AccumulatedBeforeRaise(stats, Head(es))]
       ELSE FoldFrom(Accumulated(stats, Head(es)), Tail(es))

\* analyze_logs(raw, o) with parallel=False: whether line 118 raises,
\* whether line 143 may raise, and the mapping returned when neither does
AnalyzeLogs(raw, o) ==
  LET f == FoldFrom(<<>>, ParsedOf(StripSplit(raw), o))
  IN  IF f.raised THEN [raised |-> TRUE, stdev_raises |-> FALSE, summary |-> <<>>]
      ELSE [raised |-> FALSE,
            stdev_raises |-> \E s \in DOMAIN f.stats : StdevMayRaise(f.stats[s], o),
            summary |-> Summary(f.stats, o)]

(* ------------------------------ the claims ----------------------------- *)

Services == {"api", "API", "db", NoneStr}

\* the input lines _parse_log_line accepts for service s
AcceptedLines(s) ==
  { k \in 1..Len(lines) :
      /\ ParseLogLine(lines[k], opts) # None
      /\ ParseLogLine(lines[k], opts)[1].service_name = s }

\* C1: when analyze_logs has returned, a service is a key of the result
\* exactly when some accepted line names it, and its total_events is the
\* number of accepted lines naming it, so the totals add up to the number
\* of accepted lines.
C1_TotalEvents ==
  pc = "done" =>
    /\ DOMAIN summary \subseteq Services
    /\ \A s \in Services :
         /\ s \in DOMAIN summary <=> AcceptedLines(s) # {}
         /\ s \in DOMAIN summary =>
              summary[s].total_events = Cardinality(AcceptedLines(s))

C1_Witness ==
  /\ pc = "done"
  /\ \E s \in DOMAIN summary : summary[s].total_events >= 2
  /\ \E k \in 1..Len(lines) :
       ~IsEmpty(lines[k]) /\ ParseLogLine(lines[k], opts) = None

\* a line of text that is no comment and does not split into 4 tokens
Malformed(line) == ~line.hash /\ line.n >= 1 /\ line.n # 4

WithoutMalformed(raw) == SelectSeq(raw, LAMBDA l : ~Malformed(l))

\* the services named on a well-shaped line of the text
NamedOnShapedLine ==
  { log_data[k].svc : k \in { x \in 1..Len(log_data) : ~Malformed(log_data[x]) } }

\* C2: in delimiter mode analyze_logs does not raise, and its result is the
\* result for the same text with the lines that do not split into exactly 4
\* tokens removed; a service named only on such lines is no key of it.
C2_MalformedLinesSkipped ==
  opts.regex = None =>
    /\ pc # "raised"
    /\ pc = "done" =>
         /\ summary = AnalyzeLogs(WithoutMalformed(log_data), opts).summary
         /\ \A k \in 1..Len(log_data) :
              Malformed(log_data[k]) /\ log_data[k].svc \notin NamedOnShapedLine
                => log_data[k].svc \notin DOMAIN summary

\* every line of the text is blank or has '#' as its first non-space character
OnlyBlankOrComment ==
  \A k \in 1..Len(log_data) : log_data[k].n = 0 \/ log_data[k].hash

\* C3: a text of blank and comment lines only yields the empty mapping,
\* and analyze_logs does not raise on it.
C3_CommentsYieldEmpty ==
  OnlyBlankOrComment => pc # "raised" /\ (pc = "done" => DOMAIN summary = {})

\* the accepted lines of service s whose event type is ERROR in some case
ErrorLines(s) ==
  { k \in AcceptedLines(s) :
      ParseLogLine(lines[k], opts)[1].event_type \in {"ERROR", "error", "Error"} }

Abs(x) == IF x < 0 THEN -x ELSE x

\* C4: error_rate is error_count / total_events * 100 rounded to 2 decimals
\* and followed by '%'; 2 errors out of 3 events give "66.67%", none "0.00%".
C4_ErrorRate ==
  pc = "done" =>
    \A s \in DOMAIN summary :
      LET e == Cardinality(ErrorLines(s))
          t == Cardinality(AcceptedLines(s))
          q == (10000 * e) \div t
      IN  /\ 0 <= e /\ e <= t
          /\ \E h \in {q, q + 1} :
               /\ 2 * Abs(h * t - 10000 * e) <= t
               /\ summary[s].error_rate = Fixed2(h) \o "%"
          /\ e = 2 /\ t = 3 => summary[s].error_rate = "66.67%"
          /\ e = 1 /\ t = 3 => summary[s].error_rate = "33.33%"
          /\ e = 1 /\ t = 2 => summary[s].error_rate = "50.00%"
          /\ e = t => summary[s].error_rate = "100.00%"
          /\ e = 0 => summary[s].error_rate = "0.00%"

C4_Witness ==
  /\ pc = "done"
  /\ \E s \in DOMAIN summary :
       /\ summary[s].total_events = 3
       /\ summary[s].error_rate = "66.67%"
       /\ \E k \in ErrorLines(s) : lines[k].et = "error"

RECURSIVE LatencySum(_, _)
\* the sum of the latencies of the accepted lines of service s from line k on
LatencySum(s, k) ==
  IF k > Len(lines) THEN 0
  ELSE (IF k \in AcceptedLines(s) THEN ParseLogLine(lines[k], opts)[1].latency ELSE 0)
       + LatencySum(s, k + 1)

\* some accepted line of service s has the latency nan
SomeNaN(s) ==
  \E k \in AcceptedLines(s) : ParseLogLine(lines[k], opts)[1].latency = NaN

\* C5: average_latency_ms is the sum of the service's latencies divided by
\* its total_events, rounded to 2 decimals: [12.5, 17.5] give 15.00 and a
\* sum of 10 over 3 events gives 3.33; it is 0 when total_events is 0.
\* (A sum that is nan has the average nan.)
C5_AverageLatency ==
  pc = "done" =>
    \A s \in DOMAIN summary :
      LET t == Cardinality(AcceptedLines(s))
          total == LatencySum(s, 1)
          h == summary[s].average_latency_ms
      IN  IF SomeNaN(s) THEN h = NaN
          ELSE /\ t > 0 => 2 * Abs(h * t - 10 * total) <= t
               /\ t = 2 /\ total = 300 => h = 1500
               /\ t = 3 /\ total = 100 => h = 333
               /\ summary[s].total_events = 0 => h = 0

C5_Witness ==
  /\ pc = "done"
  /\ \E s \in DOMAIN summary :
       /\ summary[s].total_events = 3
       /\ LatencySum(s, 1) = 80
       /\ summary[s].average_latency_ms = 267

\* C6: a requested histogram over ascending edges b_0..b_k has, for a
\* service with events, k+1 entries in edge order, labelled "<= b_i" and,
\* for the overflow bucket, "> b_k" with the value of the last edge in it;
\* edges [50, 100] over latencies [10, 60, 150] give one event per bucket.
C6_HistogramLabels ==
  pc = "done" /\ opts.latency_histogram # None /\ opts.latency_histogram # Some(<<>>) =>
    \A s \in DOMAIN summary :
      LET edges == opts.latency_histogram[1]
          h == summary[s].latency_histogram
      IN  /\ h # None
          /\ Len(h[1]) = Len(edges) + 1
          /\ \A k \in 1..Len(edges) : h[1][k][1] = "<= " \o ToString(edges[k])
          /\ h[1][Len(edges) + 1][1] = "> " \o ToString(edges[Len(edges)])
          /\ (edges = <<50, 100>> /\ Len(lines) = 3
              /\ \A k \in 1..3 : lines[k].lat.text = <<"10", "60", "150">>[k]
              => h[1] = << <<"<= 50", 1>>, <<"<= 100", 1>>, <<"> 100", 1>> >>)

RECURSIVE RetainedFrom(_, _)
\* the events of the accepted lines of service s from line k on, in line order
RetainedFrom(s, k) ==
  IF k > Len(lines) THEN <<>>
  ELSE (IF k \in AcceptedLines(s)
        THEN LET e == ParseLogLine(lines[k], opts)[1] IN
             <<[timestamp |-> e.timestamp, latency |-> e.latency,
                event_type |-> e.event_type]>>
        ELSE <<>>)
       \o RetainedFrom(s, k + 1)

\* the number of events that a stable descending sort puts before R[x]
Rank(R, x) ==
  Cardinality({ y \in 1..Len(R) :
                  \/ R[y].latency > R[x].latency
                  \/ R[y].latency = R[x].latency /\ y < x })

\* C7: with top_slowest = N >= 1, top_slowest_events of a service with M
\* events holds the first min(N, M) events of its retained sequence in
\* descending order of latency, events of equal latency in line order.
C7_TopSlowest ==
  pc = "done" /\ opts.top_slowest # None /\ opts.top_slowest # Some(0) =>
    \A s \in DOMAIN summary :
      LET R == RetainedFrom(s, 1)
          N == opts.top_slowest[1]
          top == summary[s].top_slowest_events
      IN  /\ top # None
          /\ Len(top[1]) = (IF N < Len(R) THEN N ELSE Len(R))
          /\ \A x \in 1..Len(R) : Rank(R, x) < N => top[1][Rank(R, x) + 1] = R[x]

C7_Witness ==
  /\ pc = "done"
  /\ opts.top_slowest = Some(2)
  /\ \E s \in DOMAIN summary :
       LET R == RetainedFrom(s, 1) IN
       /\ summary[s].top_slowest_events # None
       /\ \E x, y \in 1..Len(R) :
            /\ x < y
            /\ R[x].latency = R[y].latency
            /\ Rank(R, x) = 1
            /\ Rank(R, y) = 2
       /\ \E x, y \in 1..Len(R) : x < y /\ R[x].latency < R[y].latency

\* C8: the outcome of analyze_logs is the one of the sequential path on the
\* same input, whether the lines were parsed in order or by the pool in any
\* order of completion.
C8_ParallelAsSequential ==
  LET seq == AnalyzeLogs(log_data, [opts EXCEPT !.parallel = FALSE])
  IN  /\ pc = "done" => ~seq.raised /\ summary = seq.summary
      /\ pc = "raised" => seq.raised \/ seq.stdev_raises

C8_Witness ==
  /\ pc = "done"
  /\ opts.parallel
  /\ \E s \in DOMAIN summary :
       /\ summary[s].top_slowest_events # None
       /\ Len(summary[s].top_slowest_events[1]) = 2
       /\ summary[s].top_slowest_events[1][1].latency
            = summary[s].top_slowest_events[1][2].latency
       /\ summary[s].total_events > 2

\* C9: in regex mode no accumulator comes from a line the pattern does not
\* match or from a match that lacks one of the four named groups.
C9_RegexRejects ==
  opts.regex # None =>
    /\ opts.regex[1] # Groups => DOMAIN service_stats = {}
    /\ \A s \in DOMAIN service_stats :
         service_stats[s].total_count
           <= Cardinality({ k \in 1..Len(lines) :
                              RegexMatch(lines[k]) /\ lines[k].svc = s })

NumericTexts ==
  {"1.0", "2.0", "3.0", "5", "9", "9.0", "10", "12.5", "17.5", "50", "60", "100", "150"}

\* the line has the shape of its mode and a number, with or without unit,
\* as its latency
ValidNumeric(line, o) ==
  /\ ~line.hash
  /\ IF o.regex = None THEN line.n = 4
     ELSE o.regex[1] = Groups /\ ~line.lead /\ line.n >= 4
  /\ line.lat.text \in NumericTexts
  /\ line.lat.unit \in {"", "ms", "MS"}

\* the timestamp lies in the window, both bounds inclusive; without a bound
\* it is not looked at
InWindow(line, o) ==
  LET st == BoundDt(o.start_time)
      en == BoundDt(o.end_time)
      t == parse_time(line.ts)
  IN  \/ st = None /\ en = None
      \/ /\ t # None
         /\ st # None => st[1] <= t[1]
         /\ en # None => t[1] <= en[1]

Allowed(line, o) ==
  o.service_names \in {None, Some({})} \/ line.svc \in o.service_names[1]

CaseClasses == {{"ERROR", "error", "Error"}, {"INFO", "info"}, {"SUCCESS"}}

TypeMatches(line, o) ==
  \/ o.event_type_filter \in {None, Some("")}
  \/ \E c \in CaseClasses : line.et \in c /\ o.event_type_filter[1] \in c

Passing(s) ==
  { k \in 1..Len(lines) :
      /\ lines[k].svc = s
      /\ InWindow(lines[k], opts)
      /\ Allowed(lines[k], opts)
      /\ TypeMatches(lines[k], opts) }

\* C10: of well-formed lines with a numeric latency, exactly those that pass
\* the time window (inclusive bounds, either omittable), the service
\* allowlist (exact match) and the event type filter (any case) are counted.
C10_FiltersConjoined ==
  pc = "done" /\ (\A k \in 1..Len(lines) : ValidNumeric(lines[k], opts)) =>
    \A s \in Services :
      IF Passing(s) = {} THEN s \notin DOMAIN summary
      ELSE /\ s \in DOMAIN summary
           /\ summary[s].total_events = Cardinality(Passing(s))

C10_Witness ==
  /\ pc = "done"
  /\ BoundDt(opts.start_time) = Some(2)
  /\ BoundDt(opts.end_time) = Some(2)
  /\ opts.service_names = Some({"api"})
  /\ opts.event_type_filter = Some("error")
  /\ "api" \in DOMAIN summary
  /\ \A k \in 1..Len(lines) : ValidNumeric(lines[k], opts)

RECURSIVE SumCounts(_)
\* the sum of the counts of a histogram
SumCounts(h) == IF h = <<>> THEN 0 ELSE Head(h)[2] + SumCounts(Tail(h))

\* x <= edge and x > edge on a float x and an edge in milliseconds; both are
\* False of nan
FloatLe(x, edge) == x # NaN /\ x <= edge * 10

FloatGt(x, edge) == x # NaN /\ x > edge * 10

\* C11: with a histogram over ascending edges b_0..b_k, the count of edge b_i
\* is the number of retained events with b_(i-1) < latency <= b_i, the
\* overflow count the number of those with latency > b_k, every retained
\* event is in one of these buckets, and the counts add up to total_events.
C11_HistogramPartition ==
  pc = "done" /\ opts.latency_histogram # None /\ opts.latency_histogram # Some(<<>>) =>
    \A s \in DOMAIN summary :
      LET edges == opts.latency_histogram[1]
          R == RetainedFrom(s, 1)
          h == summary[s].latency_histogram
      IN  /\ h # None
          /\ Len(h[1]) = Len(edges) + 1
          /\ \A k \in 1..Len(edges) :
               h[1][k][2] = Cardinality({ x \in 1..Len(R) :
                                            /\ FloatLe(R[x].latency, edges[k])
                                            /\ k > 1 => FloatGt(R[x].latency, edges[k - 1]) })
          /\ h[1][Len(edges) + 1][2]
               = Cardinality({ x \in 1..Len(R) : FloatGt(R[x].latency, edges[Len(edges)]) })
          /\ \A x \in 1..Len(R) :
               \/ \E k \in 1..Len(edges) : FloatLe(R[x].latency, edges[k])
               \/ FloatGt(R[x].latency, edges[Len(edges)])
          /\ SumCounts(h[1]) = summary[s].total_events

RECURSIVE PlainSum(_)
\* the sum of the latencies of the events of R
PlainSum(R) == IF R = <<>> THEN 0 ELSE Head(R).latency + PlainSum(Tail(R))

RECURSIVE SquareSum(_)
\* the sum of the squares of the latencies of the events of R
SquareSum(R) ==
  IF R = <<>> THEN 0 ELSE Head(R).latency * Head(R).latency + SquareSum(Tail(R))

\* with n the number of events of R, S their sum and Q the sum of their
\* squares, the sample variance is (n Q - S^2) / (n (n - 1)); R[x] is more
\* than two sample deviations away from the mean, and the deviation positive
Deviant(R, x) ==
  LET n == Len(R)
      S == PlainSum(R)
      Q == SquareSum(R)
      v == n * Q - S * S
      d == Abs(n * R[x].latency - S)
  IN  /\ n > 2
      /\ \A y \in 1..n : R[y].latency # NaN
      /\ v > 0
      /\ d * d * (n - 1) > 4 * n * v

\* the positions in R of the events that are anomalies
Deviants(R) == { x \in 1..Len(R) : Deviant(R, x) }

\* C12: when analyze_logs has returned, the anomalies of a service are the
\* retained events, in line order and as full records, of a service with
\* more than two events whose sample deviation is positive and whose
\* latency is more than two deviations away from the mean; the key is
\* absent when there is none or detect_anomalies is false.
C12_Anomalies ==
  pc = "done" =>
    \A s \in DOMAIN summary :
      LET R == RetainedFrom(s, 1)
          D == Deviants(R)
          a == summary[s].anomalies
      IN  IF opts.detect_anomalies /\ D # {}
          THEN /\ a # None
               /\ Len(a[1]) = Cardinality(D)
               /\ \A x \in D : a[1][Cardinality({ y \in D : y < x }) + 1] = R[x]
          ELSE a = None

\* two anomalies with ordinary events between them, the first one before
C12_Witness ==
  /\ pc = "done"
  /\ opts.detect_anomalies
  /\ \E s \in DOMAIN summary :
       LET R == RetainedFrom(s, 1)
           a == summary[s].anomalies
       IN  /\ a # None
           /\ Len(a[1]) = 2
           /\ a[1][1] = R[1]
           /\ a[1][2] = R[Len(R)]
           /\ a[1][1].timestamp # a[1][2].timestamp
           /\ Len(R) > 3

====
